---- MODULE Spec2Model ----
(***************************************************************************)
(* Model of package logger (src/logger/zap.go): the configuration builder  *)
(* (New, newLogger, consoleCore, pathCore, the priority predicates and      *)
(* zapLevel), the process-wide default (GetGlobal, ReplaceGlobals) and the  *)
(* Logger facade methods, together with the behaviour of the zap calls     *)
(* they delegate to (Check, Write, and the after-write action of a         *)
(* checked entry).                                                         *)
(***************************************************************************)
EXTENDS Integers, Sequences, FiniteSets, TLC

VARIABLES
    handles,    \* the caller's *Logger variables, nil until assigned
    global,     \* zap's process-wide logger (what zap.L() returns)
    written,    \* what each destination has received: stdout, stderr, each file
    submitted,  \* every facade call made so far, in call order (history)
    installed,  \* the arguments of the logger last passed to ReplaceGlobals (history)
    last,       \* the most recent facade call and how it ended
    newErr,     \* the error returned by the most recent call of New
    status      \* "running", "exited" (os.Exit) or "crashed" (unrecovered panic)

vars == <<handles, global, written, submitted, installed, last, newErr, status>>

----------------------------------------------------------------------------
\* Bound of the model: the number of facade calls in a run.
MaxLog == 1

\* The caller's variables: one holds the logger built by New, two hold
\* handles GetGlobal returned.
NewVars == {"a"}
GlobalVars == {"g", "k"}
HandleVars == NewVars \cup GlobalVars

\* mode (zap.go:11-14) and level (zap.go:16-22).
Developemnt == 0
Production == 1
Debug == 0
Info == 1
Warn == 2
Error == 3
Default == Info

Modes == {Developemnt, Production}
Levels == {Debug, Info, Warn, Error}

\* zapcore.Level values named in the source.
DebugLevel == -1
InfoLevel == 0
WarnLevel == 1
ErrorLevel == 2
DPanicLevel == 3
PanicLevel == 4
FatalLevel == 5

\* File paths a caller may hand to New.  The second one cannot be opened or
\* created by the rotating-file writer (its directory is not writable).
GoodPath == "a.log"
BadPath == "ro/b.log"
Paths == {GoodPath, BadPath}
Openable(path) == path # BadPath

\* A nil zapcore.WriteSyncer: an element of a slice that was never assigned.
Nil == "nil"
Stdout == "stdout"
Stderr == "stderr"
Sinks == {Stdout, Stderr} \cup Paths

\* The filePaths arguments a caller passes to New: none, one path, two paths.
PathArgs == {<<>>, <<GoodPath>>, <<GoodPath, BadPath>>}

----------------------------------------------------------------------------
\* zapLevel with a case of its own for Warn.
zapLevel_warn(level) ==
    CASE level = Debug -> DebugLevel
      [] level = Warn -> WarnLevel
      [] level = Error -> ErrorLevel
      [] OTHER -> InfoLevel

\* zapLevel (zap.go:164-173): Debug and Error have their own case, every other
\* level takes the default branch.
zapLevel(level) ==
    CASE level = Debug -> DebugLevel
      [] level = Error -> ErrorLevel
      [] OTHER -> InfoLevel

\* infoPriority (zap.go:150-155): the level enabler of the stdout core.
infoPriority(minLevel) ==
    LET minLV == zapLevel(minLevel)
    IN {lv \in DebugLevel..FatalLevel : lv >= minLV /\ lv < ErrorLevel}

\* errorPriority without its own floor at ErrorLevel.
errorPriority_nofloor(minLevel) ==
    LET minLV == zapLevel(minLevel)
    IN {lv \in DebugLevel..FatalLevel : lv >= minLV}

\* errorPriority (zap.go:157-162): the level enabler of the stderr core.
errorPriority(minLevel) ==
    LET minLV == zapLevel(minLevel)
    IN {lv \in DebugLevel..FatalLevel : lv >= minLV /\ lv >= ErrorLevel}

\* A zapcore.Level used as a LevelEnabler (zap.go:91): everything at or above it.
LevelEnabler(minLV) == {lv \in DebugLevel..FatalLevel : lv >= minLV}

\* developmentEncoderConfig / productionEncoderConfig (zap.go:102-148): the
\* keys and encoders the two modes set.
developmentEncoderConfig ==
    [NameKey |-> "logger", MessageKey |-> "message", TimeKey |-> "timestamp",
     LevelKey |-> "level", EncodeLevel |-> "CapitalColor", CallerKey |-> "caller",
     StacktraceKey |-> "stacktrace", FunctionKey |-> "", EncodeTime |-> "RFC3339"]

productionEncoderConfig ==
    [NameKey |-> "logger", MessageKey |-> "msg", TimeKey |-> "ts",
     LevelKey |-> "lv", EncodeLevel |-> "Capital", CallerKey |-> "caller",
     StacktraceKey |-> "stacktrace", FunctionKey |-> "", EncodeTime |-> "RFC3339"]

\* zapcore.NewCore(enc, ws, enab).  out is the core's writer: the sequence of
\* WriteSyncers a write goes through, in order.
NewCore(encoder, cfg, out, enab) ==
    [encoder |-> encoder, cfg |-> cfg, out |-> out, enab |-> enab]

\* consoleCore (zap.go:94-100): a tee of the stdout core and the stderr core.
consoleCore(minLevel, encCfg) ==
    << NewCore("console", encCfg, <<Stdout>>, infoPriority(minLevel)),
       NewCore("console", encCfg, <<Stderr>>, errorPriority(minLevel)) >>

\* The files slice of pathCore (zap.go:81-87): make([]WriteSyncer, len(paths))
\* holds len(paths) nil elements, and the loop appends one writer per path
\* after them.
pathFiles(paths) == [i \in 1..Len(paths) |-> Nil] \o paths

\* pathCore (zap.go:78-92): a JSON core over the multi-writer of files.  The
\* rotating-file writers open their file on first write; the error returned
\* is always nil.
pathCore(level, encCfg, paths) ==
    [core |-> NewCore("json", encCfg, pathFiles(paths), LevelEnabler(zapLevel(level))),
     err |-> FALSE]

\* newLogger (zap.go:58-76): the console core, then the file core when paths
\* were given, teed into one zap logger; Named(name).Sugar().
newLogger(name, minLevel, cfg, paths) ==
    LET fc == pathCore(minLevel, cfg, paths)
        cores == IF Len(paths) # 0
                 THEN consoleCore(minLevel, cfg) \o <<fc.core>>
                 ELSE consoleCore(minLevel, cfg)
    IN IF Len(paths) # 0 /\ fc.err
       THEN [logger |-> [cores |-> <<>>, name |-> "", development |-> FALSE, callerSkip |-> 0],
             err |-> TRUE]
       ELSE [logger |-> [cores |-> cores, name |-> name, development |-> FALSE,
                         callerSkip |-> 2],
             err |-> FALSE]

\* zap's initial global logger, zap.NewNop(): no core, so nothing is enabled.
NopLogger == [cores |-> <<>>, name |-> "", development |-> FALSE, callerSkip |-> 0]

\* SugaredLogger.Desugar() and Logger.Sugar(): the same core; the caller skip
\* moves by two frames.
Desugar(s) == [s EXCEPT !.callerSkip = @ - 2]
Sugar(l) == [l EXCEPT !.callerSkip = @ + 2]

----------------------------------------------------------------------------
\* Writing a checked entry.

\* The line a core's encoder produces for an entry.
EncodeEntry(core, ent) ==
    [id |-> ent.id, lvl |-> ent.lvl, encoder |-> core.encoder,
     key |-> core.cfg.MessageKey]

\* Write of a core's writer: each WriteSyncer in turn.  A call on a nil
\* WriteSyncer is a nil dereference: it panics and nothing after it runs.  A
\* file that cannot be opened makes its writer return an error; the others
\* are still written.
RECURSIVE WriteSyncers(_, _, _)
WriteSyncers(ws, line, st) ==
    IF ws = <<>> THEN st
    ELSE LET dst == Head(ws)
         IN IF dst = Nil THEN [st EXCEPT !.panicked = TRUE]
            ELSE IF dst \in Paths /\ ~Openable(dst)
            THEN WriteSyncers(Tail(ws), line, [st EXCEPT !.err = TRUE])
            ELSE WriteSyncers(Tail(ws), line,
                              [st EXCEPT !.w[dst] = Append(@, line)])

\* Core.Check then CheckedEntry.Write over the logger's cores, in tee order:
\* a core whose enabler rejects the level is skipped, the others encode and
\* write one after the other.
RECURSIVE WriteCores(_, _, _)
WriteCores(cores, ent, st) ==
    IF cores = <<>> \/ st.panicked THEN st
    ELSE LET c == Head(cores)
         IN IF ent.lvl \in c.enab
            THEN WriteCores(Tail(cores), ent,
                            WriteSyncers(c.out, EncodeEntry(c, ent), st))
            ELSE WriteCores(Tail(cores), ent, st)

\* What zap does after the write: Fatal exits the process, Panic panics,
\* DPanic panics only for a logger built with the Development option.
AfterWrite(logger, lvl) ==
    CASE lvl = FatalLevel -> "exit"
      [] lvl = PanicLevel -> "panic"
      [] lvl = DPanicLevel /\ logger.development -> "panic"
      [] OTHER -> "returned"

\* One facade call on handle h at the zap level lvl of the SugaredLogger
\* method the facade method delegates to.  A write error is reported on zap's
\* error output (stderr).  A panic unwinds to the caller, which either
\* recovers it or lets the process die.
log(h, lvl) ==
    /\ status = "running"
    /\ handles[h].origin # "nil"
    /\ Len(submitted) < MaxLog
    /\ LET lg == handles[h].logger
           ent == [id |-> Len(submitted) + 1, lvl |-> lvl]
           st == WriteCores(lg.cores, ent,
                            [w |-> written, panicked |-> FALSE, err |-> FALSE])
           outcome == IF st.panicked THEN "panic" ELSE AfterWrite(lg, lvl)
       IN /\ written' =
                IF st.err /\ ~st.panicked
                THEN [st.w EXCEPT ![Stderr] =
                        Append(@, [id |-> ent.id, lvl |-> lvl,
                                   encoder |-> "internal", key |-> "write error"])]
                ELSE st.w
          /\ submitted' = Append(submitted, [id |-> ent.id, lvl |-> lvl, h |-> h])
          /\ last' = [h |-> h, id |-> ent.id, lvl |-> lvl,
                      outcome |-> outcome, nilDeref |-> st.panicked]
          /\ \E recovered \in BOOLEAN :
                status' = CASE outcome = "exit" -> "exited"
                            [] outcome = "panic" /\ ~recovered -> "crashed"
                            [] OTHER -> "running"
    /\ UNCHANGED <<handles, global, installed, newErr>>

----------------------------------------------------------------------------
\* The Logger facade (zap.go:185-255): each method delegates to the
\* SugaredLogger method of the level given here.
Panic(h) == log(h, DPanicLevel)
Panicf(h) == log(h, DPanicLevel)
Panicln(h) == log(h, PanicLevel)
Debugm(h) == log(h, DebugLevel)
Debugf(h) == log(h, DebugLevel)
Debugln(h) == log(h, DebugLevel)
Errorm(h) == log(h, ErrorLevel)
Errorf(h) == log(h, ErrorLevel)
Errorln(h) == log(h, ErrorLevel)
Fatal(h) == log(h, FatalLevel)
Fatalf(h) == log(h, FatalLevel)
Fatalln(h) == log(h, FatalLevel)
Infom(h) == log(h, InfoLevel)
Infof(h) == log(h, InfoLevel)
Infoln(h) == log(h, InfoLevel)
Warnm(h) == log(h, WarnLevel)
Warnf(h) == log(h, WarnLevel)
Warnln(h) == log(h, WarnLevel)

----------------------------------------------------------------------------
\* A nil *Logger, and the arguments recorded for a handle that wraps zap's
\* initial no-op logger.
NoCfg == [mode |-> Developemnt, minLevel |-> Default, paths |-> <<>>, nop |-> TRUE]
NilHandle == [logger |-> NopLogger, origin |-> "nil", cfg |-> NoCfg]

\* New (zap.go:35-52): the production encoder config for Production, the
\* development one for every other mode; the error of newLogger is returned
\* with a nil logger.  v is the caller's variable that takes the result and
\* cfg records the arguments the handle was built with.
New(v, name, mode, minLevel, filePaths) ==
    /\ status = "running"
    /\ handles[v].origin = "nil"
    /\ LET r == IF mode = Production
                THEN newLogger(name, minLevel, productionEncoderConfig, filePaths)
                ELSE newLogger(name, minLevel, developmentEncoderConfig, filePaths)
       IN /\ handles' = IF r.err THEN handles
                        ELSE [handles EXCEPT ![v] =
                               [logger |-> r.logger, origin |-> "New",
                                cfg |-> [mode |-> mode, minLevel |-> minLevel,
                                         paths |-> filePaths, nop |-> FALSE]]]
          /\ newErr' = r.err
    /\ UNCHANGED <<global, written, submitted, installed, last, status>>

\* GetGlobal wrapping a fresh no-op logger instead of zap.L().
GetGlobal_nop(v) ==
    /\ status = "running"
    /\ handles[v].origin = "nil"
    /\ handles' = [handles EXCEPT ![v] =
            [logger |-> Sugar(NopLogger), origin |-> "GetGlobal", cfg |-> installed]]
    /\ UNCHANGED <<global, written, submitted, installed, last, newErr, status>>

\* GetGlobal (zap.go:29-33): a new handle around zap.L().Sugar(), the global
\* logger of this moment.  cfg records what was installed then (history).
GetGlobal(v) ==
    /\ status = "running"
    /\ handles[v].origin = "nil"
    /\ handles' = [handles EXCEPT ![v] =
            [logger |-> Sugar(global), origin |-> "GetGlobal", cfg |-> installed]]
    /\ UNCHANGED <<global, written, submitted, installed, last, newErr, status>>

\* ReplaceGlobals (zap.go:54-56): zap's global logger becomes the handle's
\* desugared logger.
ReplaceGlobals(h) ==
    /\ status = "running"
    /\ handles[h].origin # "nil"
    /\ global' = Desugar(handles[h].logger)
    /\ installed' = handles[h].cfg
    /\ UNCHANGED <<handles, written, submitted, last, newErr, status>>

----------------------------------------------------------------------------
NoCall == [h |-> "", id |-> 0, lvl |-> 0, outcome |-> "returned", nilDeref |-> FALSE]

Init ==
    /\ handles = [v \in HandleVars |-> NilHandle]
    /\ global = NopLogger
    /\ written = [s \in Sinks |-> <<>>]
    /\ submitted = <<>>
    /\ installed = NoCfg
    /\ last = NoCall
    /\ newErr = FALSE
    /\ status = "running"

Next ==
    \/ \E v \in NewVars, mode \in Modes, minLevel \in Levels, filePaths \in PathArgs :
          New(v, "svc", mode, minLevel, filePaths)
    \/ \E v \in GlobalVars : GetGlobal(v)
    \/ \E h \in HandleVars : ReplaceGlobals(h)
    \/ \E h \in HandleVars : Panic(h)
    \/ \E h \in HandleVars : Panicf(h)
    \/ \E h \in HandleVars : Panicln(h)
    \/ \E h \in HandleVars : Debugm(h)
    \/ \E h \in HandleVars : Debugf(h)
    \/ \E h \in HandleVars : Debugln(h)
    \/ \E h \in HandleVars : Errorm(h)
    \/ \E h \in HandleVars : Errorf(h)
    \/ \E h \in HandleVars : Errorln(h)
    \/ \E h \in HandleVars : Fatal(h)
    \/ \E h \in HandleVars : Fatalf(h)
    \/ \E h \in HandleVars : Fatalln(h)
    \/ \E h \in HandleVars : Infom(h)
    \/ \E h \in HandleVars : Infof(h)
    \/ \E h \in HandleVars : Infoln(h)
    \/ \E h \in HandleVars : Warnm(h)
    \/ \E h \in HandleVars : Warnf(h)
    \/ \E h \in HandleVars : Warnln(h)

Spec == Init /\ [][Next]_vars

----------------------------------------------------------------------------
\* Vocabulary of the properties.

\* The facade severity of a zap level, in the order Debug < Info < Warn <
\* Error < Panic < Fatal; the first four are numbered like the level type.
Severity(lvl) ==
    CASE lvl = DebugLevel -> Debug
      [] lvl = InfoLevel -> Info
      [] lvl = WarnLevel -> Warn
      [] lvl = ErrorLevel -> Error
      [] lvl = FatalLevel -> Error + 2
      [] OTHER -> Error + 1

\* How many lines of event id a destination has received.
Count(sink, id) ==
    Cardinality({i \in DOMAIN written[sink] :
                    written[sink][i].id = id /\ written[sink][i].encoder # "internal"})

Range(seq) == {seq[i] : i \in DOMAIN seq}

\* The logger New builds from the arguments cfg.
BuiltBy(cfg) ==
    IF cfg.mode = Production
    THEN newLogger("svc", cfg.minLevel, productionEncoderConfig, cfg.paths).logger
    ELSE newLogger("svc", cfg.minLevel, developmentEncoderConfig, cfg.paths).logger

\* What one call at lvl on a logger built from cfg leaves on fresh
\* destinations: per destination, the number of lines.
Delivery(cfg, lvl) ==
    LET st == WriteCores(BuiltBy(cfg).cores, [id |-> 1, lvl |-> lvl],
                         [w |-> [s \in Sinks |-> <<>>], panicked |-> FALSE, err |-> FALSE])
    IN [s \in Sinks |-> Len(st.w[s])]

\* What the last call left on the destinations.
Received == [s \in Sinks |-> Count(s, last.id)]

Called == last.id # 0
LastHandle == handles[last.h]

\* The last call went through a handle whose logger New configured, at or
\* above the configured minimum severity.
AtOrAboveMin ==
    /\ Called
    /\ ~LastHandle.cfg.nop
    /\ Severity(last.lvl) >= LastHandle.cfg.minLevel

\* The listed files that can be opened.
OpenableFiles(cfg) == {p \in Range(cfg.paths) : Openable(p)}

----------------------------------------------------------------------------
\* C1: a call at a severity at or above the configured minimum is written to
\* exactly one console stream, once: standard output below Error, standard
\* error from Error up (Panic and Fatal included), never both.
C1_OneConsoleStream ==
    AtOrAboveMin =>
        IF Severity(last.lvl) < Error
        THEN Count(Stdout, last.id) = 1 /\ Count(Stderr, last.id) = 0
        ELSE Count(Stdout, last.id) = 0 /\ Count(Stderr, last.id) = 1

C1_Witness ==
    /\ AtOrAboveMin
    /\ LastHandle.origin = "New"
    /\ LastHandle.cfg.minLevel = Warn
    /\ LastHandle.cfg.paths # <<>>
    /\ last.lvl = DPanicLevel
    /\ Count(Stderr, last.id) = 1

\* C2: a call at a severity strictly below the configured minimum leaves
\* nothing on standard output, standard error or any file.
C2_NothingBelowMin ==
    (/\ Called
     /\ LastHandle.origin = "New"
     /\ Severity(last.lvl) < LastHandle.cfg.minLevel)
        => \A s \in Sinks : Count(s, last.id) = 0

\* C3: with n >= 1 file paths, a call at or above the minimum returns normally
\* (for the severities that do not terminate) and appends exactly one record
\* to each listed file; the file core's writer has exactly the n listed
\* destinations, none of them empty.
C3_OneRecordPerFile ==
    (/\ AtOrAboveMin
     /\ LastHandle.origin = "New"
     /\ Len(LastHandle.cfg.paths) >= 1)
        => /\ Severity(last.lvl) <= Error => last.outcome = "returned"
           /\ \A p \in OpenableFiles(LastHandle.cfg) : Count(p, last.id) = 1
           /\ \E i \in DOMAIN LastHandle.logger.cores :
                 LastHandle.logger.cores[i].out = LastHandle.cfg.paths

\* C4: New returns a logger (and a nil error) only when every listed file
\* could be opened; with a path that cannot be opened it returns an error.
C4_NewFailsOnBadPath ==
    \A v \in NewVars :
        (handles[v].origin = "New" /\ ~newErr)
            => \A p \in Range(handles[v].cfg.paths) : Openable(p)

\* C5: a Fatal call writes the event to every destination whose filter accepts
\* it (standard error always), then terminates the process; no later call
\* produces output.
C5_FatalWritesThenExits ==
    /\ (Called /\ LastHandle.origin = "New" /\ last.lvl = FatalLevel)
          => /\ Count(Stderr, last.id) = 1
             /\ \A p \in OpenableFiles(LastHandle.cfg) : Count(p, last.id) = 1
             /\ status = "exited"
    /\ \A i, j \in DOMAIN submitted :
          (i < j /\ submitted[i].lvl = FatalLevel)
             => \A s \in Sinks : Count(s, submitted[j].id) = 0

\* C6: a Panicln call writes the event to the accepting destinations and then
\* raises a panic; it never returns normally.
C6_PaniclnWritesThenPanics ==
    (Called /\ LastHandle.origin = "New" /\ last.lvl = PanicLevel)
        => /\ Count(Stderr, last.id) = 1
           /\ \A p \in OpenableFiles(LastHandle.cfg) : Count(p, last.id) = 1
           /\ last.outcome = "panic"

\* C7: a Panic or Panicf call always writes the event, and raises exactly
\* when the logger was built in Development mode.
C7_PanicRaisesInDevelopment ==
    (Called /\ LastHandle.origin = "New" /\ last.lvl = DPanicLevel)
        => /\ Count(Stderr, last.id) = 1
           /\ \A p \in OpenableFiles(LastHandle.cfg) : Count(p, last.id) = 1
           /\ (last.outcome = "panic") <=> (LastHandle.cfg.mode = Developemnt)

\* C8: Warn is no filtering priority of its own: a logger built with minimum
\* Warn leaves every event on exactly the destinations a logger built with
\* minimum Info (same mode, same paths) leaves it on, and the other way
\* round; an accepted Warn event goes to standard output like an Info event.
C8_WarnFiltersLikeInfo ==
    (Called /\ LastHandle.origin = "New")
        => /\ LastHandle.cfg.minLevel = Warn
                => Received = Delivery([LastHandle.cfg EXCEPT !.minLevel = Info], last.lvl)
           /\ LastHandle.cfg.minLevel = Info
                => Received = Delivery([LastHandle.cfg EXCEPT !.minLevel = Warn], last.lvl)
           /\ (last.lvl \in {InfoLevel, WarnLevel} /\ Received # [s \in Sinks |-> 0])
                => Count(Stdout, last.id) = 1 /\ Count(Stderr, last.id) = 0

C8_Witness ==
    /\ Called
    /\ LastHandle.origin = "New"
    /\ LastHandle.cfg.minLevel = Warn
    /\ last.lvl = InfoLevel
    /\ Count(Stdout, last.id) = 1

\* C9: a handle from GetGlobal wraps the logger that was installed last
\* before the GetGlobal call (the no-op logger if none was) and keeps wrapping
\* it whatever is installed afterwards: its calls leave what a call on that
\* logger leaves, and nothing at all when none was installed.
C9_GlobalHandleIsSnapshot ==
    /\ \A v \in HandleVars :
          handles[v].origin = "GetGlobal"
             => handles[v].logger =
                   IF handles[v].cfg.nop THEN Sugar(NopLogger) ELSE BuiltBy(handles[v].cfg)
    /\ (Called /\ LastHandle.origin = "GetGlobal")
          => Received = IF LastHandle.cfg.nop THEN [s \in Sinks |-> 0]
                        ELSE Delivery(LastHandle.cfg, last.lvl)

C9_Witness ==
    /\ Called
    /\ LastHandle.origin = "GetGlobal"
    /\ ~LastHandle.cfg.nop
    /\ installed.nop
    /\ last.lvl = ErrorLevel
    /\ Count(Stderr, last.id) = 1

\* The ids a destination received, in the order received.
RECURSIVE Ids(_)
Ids(lines) ==
    IF lines = <<>> THEN <<>>
    ELSE IF Head(lines).encoder = "internal" THEN Ids(Tail(lines))
    ELSE <<Head(lines).id>> \o Ids(Tail(lines))

\* The ids of the submitted events that a destination's own filter accepts,
\* in submission order.
RECURSIVE Accepted(_, _)
Accepted(sink, events) ==
    IF events = <<>> THEN <<>>
    ELSE LET e == Head(events)
             cs == handles[e.h].logger.cores
         IN IF \E i \in DOMAIN cs : sink \in Range(cs[i].out) /\ e.lvl \in cs[i].enab
            THEN <<e.id>> \o Accepted(sink, Tail(events))
            ELSE Accepted(sink, Tail(events))

\* C10: every destination holds exactly the submitted events its own filter
\* accepts, in submission order, none duplicated, dropped or reordered.
C10_EachSinkItsSubsequence ==
    \A s \in Sinks : Openable(s) => Ids(written[s]) = Accepted(s, submitted)

====
